---------------------------- MODULE Spec2Model ----------------------------
(***************************************************************************)
(* Model of the notebook "Building a CNN - MNIST": the data preparation    *)
(* cells (reshape, to_categorical, astype, normalise), the Sequential      *)
(* layer stack, model.fit and model.evaluate.                              *)
(***************************************************************************)
EXTENDS Integers, Sequences, FiniteSets, TLC

VARIABLES
    cell,       \* the notebook cell that runs next, or "error" / "done"
    err,        \* the exception that stopped the notebook, "none" otherwise
    raw,        \* the arrays as loaded (never rebound afterwards)
    x_train, x_test,   \* image arrays: [shape, dtype, maxval]
    y_train, y_test,   \* label arrays: [kind, data]
    model,      \* the Sequential model: the layers added so far
    compiled,   \* the loss / optimizer / metrics set by model.compile
    params,     \* trainable parameters of all layers: [ver, finite]
    bn,         \* moving mean/variance of each BatchNormalization layer
    epoch,      \* epochs completed by model.fit
    step,       \* batches completed in the current epoch / evaluation
    seen,       \* samples processed in the current epoch / evaluation
    pc,         \* position inside model.fit / model.evaluate
    pass,       \* the forward pass in progress
    loss,       \* loss of the current batch
    grads,      \* gradients of the current training batch
    acc,        \* metric accumulator of the running evaluation
    logs,       \* logs of the latest finished epoch of model.fit
    results     \* return values of the model.evaluate calls

prepVars == <<cell, err, raw, x_train, x_test, y_train, y_test>>
trainVars == <<model, compiled, params, bn, epoch, step, seen, pc, pass, loss,
               grads, acc, logs, results>>
vars == <<prepVars, trainVars>>

(***************************************************************************)
(* Bounds of the data preparation model.                                   *)
(***************************************************************************)
MaxN == 2         \* largest number of training samples enumerated
LabelSpan == 1    \* raw labels are enumerated this far beyond numpy's index range
NumMasks == 2     \* number of distinct dropout masks a training pass can draw
MaxEvals == 2     \* how many times the model.evaluate cell is run

(***************************************************************************)
(* Configuration cell.                                                     *)
(***************************************************************************)
img_rows == 28
img_cols == 28
input_shape == <<img_rows, img_cols, 1>>
batch_size == 128
num_classes == 10
epochs == 20

(***************************************************************************)
(* numpy helpers.                                                          *)
(***************************************************************************)
RECURSIVE Prod(_)
Prod(s) == IF s = <<>> THEN 1 ELSE Head(s) * Prod(Tail(s))

\* ndarray.reshape(newshape): defined iff the element counts agree.
ReshapeOk(shape, newshape) == Prod(shape) = Prod(newshape)

\* numpy integer indexing along an axis of length k: -k..k-1 are valid,
\* negative indices count from the end.
\* (mutant) an index check that rejects negative indices
IndexOkStrict(l, k) == 0 <= l /\ l < k
IndexOk(l, k) == (0 - k) <= l /\ l < k
WrapIndex(l, k) == IF l < 0 THEN l + k ELSE l

\* (mutant) classes numbered from 1: label l sets column l - 1
to_categorical_from1(y, k) ==
    [i \in 1..Len(y) |-> [j \in 0..(k - 1) |-> IF j + 1 = WrapIndex(y[i], k) THEN 1 ELSE 0]]

\* keras.utils.to_categorical(y, k): zeros((n, k)); categorical[arange(n), y] = 1
ToCategoricalOk(y, k) == \A i \in 1..Len(y) : IndexOk(y[i], k)
to_categorical(y, k) ==
    [i \in 1..Len(y) |-> [j \in 0..(k - 1) |-> IF j = WrapIndex(y[i], k) THEN 1 ELSE 0]]

\* argmax over a row: the first index holding the maximum (used by the
\* 'accuracy' metric to decode one-hot labels and predictions).
argmax(row) ==
    CHOOSE j \in DOMAIN row :
        /\ \A m \in DOMAIN row : row[m] <= row[j]
        /\ \A m \in DOMAIN row : m < j => row[m] < row[j]

(***************************************************************************)
(* The arrays mnist.load_data() (and the 20k sampling) can hand over.      *)
(***************************************************************************)
RawShapes(n) == { <<n, 28, 28>>, <<n, 14, 56>>, <<n, 28, 27>>, <<n, 784>> }

LabelVals == (0 - num_classes - LabelSpan)..(num_classes - 1 + LabelSpan)
LabelSeqs(n) == [1..n -> LabelVals]

TestCases == { [shape |-> <<1, 28, 28>>, labels |-> <<7>>],
               [shape |-> <<1, 28, 28>>, labels |-> <<0 - 1>>],
               [shape |-> <<1, 28, 28>>, labels |-> <<10>>],
               [shape |-> <<1, 27, 28>>, labels |-> <<7>>] }

ImageArray(shape) == [shape |-> shape, dtype |-> "uint8", maxval |-> 255]
LabelArray(labels) == [kind |-> "labels", data |-> labels]

(***************************************************************************)
(* State of the model variables while the data preparation cells run.      *)
(***************************************************************************)
NoPass == [kind |-> "none", training |-> FALSE, layer |-> 0, shape |-> <<>>,
           paramsRead |-> [ver |-> 0, finite |-> TRUE], bnUsed |-> <<>>, mask |-> 0]
NoAcc == [kind |-> "none", batch |-> 0, steps |-> 0, n |-> 0, finite |-> TRUE,
          reads |-> {}]

NoLogs == [epoch |-> 0, steps |-> 0, seen |-> 0,
           val |-> [n |-> 0, finite |-> TRUE, reads |-> {}]]

NoModel ==
    /\ model = <<>>
    /\ compiled = [loss |-> "none", optimizer |-> "none", metrics |-> <<>>]
    /\ params = [ver |-> 0, finite |-> TRUE]
    /\ bn = [i \in {} |-> 0]
    /\ epoch = 0 /\ step = 0 /\ seen = 0
    /\ pc = "idle"
    /\ pass = NoPass
    /\ loss = "none" /\ grads = "none"
    /\ acc = NoAcc
    /\ logs = NoLogs
    /\ results = <<>>

InitPrep ==
    /\ cell = "reshape"
    /\ err = "none"
    /\ \E n \in 1..MaxN : \E s \in RawShapes(n) : \E ys \in LabelSeqs(n) :
       \E t \in TestCases :
          /\ raw = [x_train |-> s, y_train |-> ys, x_test |-> t.shape, y_test |-> t.labels]
          /\ x_train = ImageArray(s)
          /\ y_train = LabelArray(ys)
          /\ x_test = ImageArray(t.shape)
          /\ y_test = LabelArray(t.labels)
    /\ NoModel

(***************************************************************************)
(* Cell 6: x_train = x_train.reshape(n, 28, 28, 1); same for x_test.       *)
(* The first statement has rebound x_train when the second one raises.     *)
(***************************************************************************)
Reshaped(x) == [x EXCEPT !.shape = <<x.shape[1], img_rows, img_cols, 1>>]

CellReshape ==
    /\ cell = "reshape"
    /\ IF ~ReshapeOk(x_train.shape, <<x_train.shape[1], img_rows, img_cols, 1>>)
       THEN /\ cell' = "error" /\ err' = "ValueError"
            /\ UNCHANGED <<x_train, x_test>>
       ELSE IF ~ReshapeOk(x_test.shape, <<x_test.shape[1], img_rows, img_cols, 1>>)
       THEN /\ cell' = "error" /\ err' = "ValueError"
            /\ x_train' = Reshaped(x_train)
            /\ UNCHANGED x_test
       ELSE /\ cell' = "to_categorical" /\ UNCHANGED err
            /\ x_train' = Reshaped(x_train)
            /\ x_test' = Reshaped(x_test)
    /\ UNCHANGED <<raw, y_train, y_test, trainVars>>

(***************************************************************************)
(* Cell 7: y_train = to_categorical(y_train, num_classes); same for y_test *)
(***************************************************************************)
OneHotArray(y) == [kind |-> "onehot", data |-> to_categorical(y.data, num_classes)]

CellToCategorical ==
    /\ cell = "to_categorical"
    /\ IF ~ToCategoricalOk(y_train.data, num_classes)
       THEN /\ cell' = "error" /\ err' = "IndexError"
            /\ UNCHANGED <<y_train, y_test>>
       ELSE IF ~ToCategoricalOk(y_test.data, num_classes)
       THEN /\ cell' = "error" /\ err' = "IndexError"
            /\ y_train' = OneHotArray(y_train)
            /\ UNCHANGED y_test
       ELSE /\ cell' = "normalise" /\ UNCHANGED err
            /\ y_train' = OneHotArray(y_train)
            /\ y_test' = OneHotArray(y_test)
    /\ UNCHANGED <<raw, x_train, x_test, trainVars>>

(***************************************************************************)
(* Cell 9: astype('float32') then x /= 255, for both partitions.           *)
(***************************************************************************)
Normalised(x) == [x EXCEPT !.dtype = "float32", !.maxval = x.maxval \div 255]

CellNormalise ==
    /\ cell = "normalise"
    /\ cell' = "build"
    /\ x_train' = Normalised(x_train)
    /\ x_test' = Normalised(x_test)
    /\ UNCHANGED <<err, raw, y_train, y_test, trainVars>>

NextPrep == CellReshape \/ CellToCategorical \/ CellNormalise

SpecPrep == InitPrep /\ [][NextPrep]_vars

(***************************************************************************)
(* Cell 10: the Sequential layer stack.                                    *)
(***************************************************************************)
Conv2D(filters, k) == [type |-> "Conv2D", units |-> filters, size |-> k]
BatchNormalization == [type |-> "BatchNormalization", units |-> 0, size |-> 0]
MaxPooling2D(p) == [type |-> "MaxPooling2D", units |-> 0, size |-> p]
Flatten == [type |-> "Flatten", units |-> 0, size |-> 0]
Dense(n) == [type |-> "Dense", units |-> n, size |-> 0]
Dropout(pct) == [type |-> "Dropout", units |-> 0, size |-> pct]

LayerStack ==
    << Conv2D(32, 3), BatchNormalization,
       Conv2D(64, 3), BatchNormalization, MaxPooling2D(2),
       Conv2D(128, 3), BatchNormalization, MaxPooling2D(2),
       Flatten, Dense(128), Dropout(25),
       Dense(num_classes) >>

Last(s) == s[Len(s)]

\* (mutant) a convolution with padding='same'
ConvOutSame(n, k) == n
\* Conv2D with the default padding='valid' and strides=(1, 1).
ConvOut(n, k) == n - k + 1
\* MaxPooling2D with the default padding='valid' and strides=pool_size.
PoolOut(n, p) == n \div p

\* Output shape of a layer (without the batch axis) for a given input shape.
OutShape(l, in) ==
    CASE l.type = "Conv2D" -> <<ConvOut(in[1], l.size), ConvOut(in[2], l.size), l.units>>
      [] l.type = "MaxPooling2D" -> <<PoolOut(in[1], l.size), PoolOut(in[2], l.size), in[3]>>
      [] l.type = "Flatten" -> <<Prod(in)>>
      [] l.type = "Dense" -> SubSeq(in, 1, Len(in) - 1) \o <<l.units>>
      [] OTHER -> in

\* Trainable parameters of a layer: kernel + bias, or gamma + beta.
TrainableCount(l, in) ==
    CASE l.type = "Conv2D" -> l.size * l.size * in[3] * l.units + l.units
      [] l.type = "Dense" -> Last(in) * l.units + l.units
      [] l.type = "BatchNormalization" -> 2 * Last(in)
      [] OTHER -> 0

\* Non-trainable parameters: the moving mean and variance of BatchNormalization.
NonTrainableCount(l, in) ==
    IF l.type = "BatchNormalization" THEN 2 * Last(in) ELSE 0

BuiltLayer(l, in) ==
    [type |-> l.type, units |-> l.units, size |-> l.size,
     input |-> in, output |-> OutShape(l, in),
     trainable |-> TrainableCount(l, in),
     non_trainable |-> NonTrainableCount(l, in)]

\* The shape the next layer is built on: input_shape for the first layer,
\* the previous layer's output afterwards (a later input_shape is ignored).
NextInput(m) == IF m = <<>> THEN input_shape ELSE Last(m).output

InitStats == [ver |-> 0, last |-> 0, finite |-> TRUE]

\* model.add(layer), and model.summary() after the last one.
AddLayer ==
    /\ cell = "build"
    /\ Len(model) < Len(LayerStack)
    /\ LET n == Len(model) + 1
           l == BuiltLayer(LayerStack[n], NextInput(model))
       IN /\ model' = Append(model, l)
          /\ bn' = IF l.type = "BatchNormalization"
                   THEN [i \in DOMAIN bn \cup {n} |-> IF i = n THEN InitStats ELSE bn[i]]
                   ELSE bn
          /\ cell' = IF n = Len(LayerStack) THEN "compile" ELSE "build"
    /\ UNCHANGED <<err, raw, x_train, x_test, y_train, y_test>>
    /\ UNCHANGED <<compiled, params, epoch, step, seen, pc, pass, loss, grads,
                   acc, logs, results>>

RECURSIVE SumOver(_, _)
SumOver(m, field) ==
    IF m = <<>> THEN 0 ELSE Head(m)[field] + SumOver(Tail(m), field)

TrainableParams(m) == SumOver(m, "trainable")
NonTrainableParams(m) == SumOver(m, "non_trainable")
TotalParams(m) == TrainableParams(m) + NonTrainableParams(m)

(***************************************************************************)
(* Cell 11: model.compile(loss, optimizer, metrics).                       *)
(***************************************************************************)
CellCompile ==
    /\ cell = "compile"
    /\ compiled' = [loss |-> "categorical_crossentropy", optimizer |-> "Adadelta",
                    metrics |-> <<"accuracy">>]
    /\ cell' = "fit"
    /\ UNCHANGED <<err, raw, x_train, x_test, y_train, y_test>>
    /\ UNCHANGED <<model, params, bn, epoch, step, seen, pc, pass, loss, grads,
                   acc, logs, results>>

(***************************************************************************)
(* Cell 12: model.fit(x_train, y_train, batch_size, epochs, verbose=1,     *)
(* validation_data=(x_test, y_test)) and cell 13: model.evaluate(x_test,   *)
(* y_test).  The data of the run: 20000 sampled training images, 10000     *)
(* test images.                                                            *)
(***************************************************************************)
NumTrain == 20000
NumTest == 10000
EvalBatchSize == 32      \* model.evaluate's default batch_size

Min(a, b) == IF a < b THEN a ELSE b

\* Number of batches of size b that cover n samples, and the length of batch s.
StepsFor(n, b) == (n + b - 1) \div b
\* (mutant) every batch is taken full, the last one included
BatchLenFull(n, b, s) == b
BatchLen(n, b, s) == Min(b, n - s * b)

StepsPerEpoch == StepsFor(NumTrain, batch_size)

\* Number (from 1) of the training batch in progress, over the whole fit.
GlobalBatch == epoch * StepsPerEpoch + step + 1

\* (mutant) every pass, evaluation included, runs in training mode
TrainingAlways(kind) == TRUE

\* train_step calls the model with training=True, test_step (validation
\* inside fit, and evaluate) with training=False.
Training(kind) == kind = "train"

\* (mutant) a pass that computes with the parameters of one update earlier
ReadStale(p) == [p EXCEPT !.ver = IF @ > 0 THEN @ - 1 ELSE 0]

\* The trainable parameters a pass computes with.
ReadParams(p) == p

NewPass(kind, b) ==
    [kind |-> kind, training |-> Training(kind), layer |-> 0,
     shape |-> <<b>> \o input_shape, paramsRead |-> ReadParams(params),
     bnUsed |-> <<>>, mask |-> 0]

NewAcc(kind, b) ==
    [kind |-> kind, batch |-> b, steps |-> 0, n |-> 0, finite |-> TRUE, reads |-> {}]

\* (mutant) the moving averages are updated whatever the mode
BNUpdateAlways(s, training, g, fin) ==
    [ver |-> s.ver + 1, last |-> g, finite |-> s.finite /\ fin]

\* BatchNormalization.call: batch statistics and a moving-average update
\* when training, the moving statistics (left alone) otherwise.
BNStatsUsed(training) == IF training THEN "batch" ELSE "moving"
BNUpdate(s, training, g, fin) ==
    IF training
    THEN [ver |-> s.ver + 1, last |-> g, finite |-> s.finite /\ fin]
    ELSE s

\* (mutant) Dropout draws a mask whatever the mode
DropoutAlways(l, training) ==
    IF l.type = "Dropout" THEN 1..NumMasks ELSE {0}

\* Dropout.call: a random mask when training, the identity (0) otherwise.
DropoutMasks(l, training) ==
    IF l.type = "Dropout" /\ training THEN 1..NumMasks ELSE {0}

\* (mutant) training stops at the first non-finite loss
StopOnNonFinite(l) == l = "nonfinite"

\* model.fit is called without callbacks: nothing ever sets stop_training.
StopTraining(l) == FALSE

\* for epoch in range(initial_epoch, epochs)
EpochsDone(e) == e >= epochs

\* (mutant) an update that is skipped when the gradients are non-finite
ApplyFiniteGradients(p, g) ==
    IF g = "finite" THEN [ver |-> p.ver + 1, finite |-> p.finite] ELSE p

\* optimizer.apply_gradients: every trainable parameter moves by its step.
ApplyGradients(p, g) == [ver |-> p.ver + 1, finite |-> p.finite /\ g = "finite"]

\* The losses a pass can produce.
LossValues(ps, stats) ==
    IF ~ps.paramsRead.finite THEN {"nonfinite"}
    ELSE IF ps.training THEN {"finite", "nonfinite"}
    ELSE IF \A i \in DOMAIN stats : stats[i].finite THEN {"finite"}
    ELSE {"nonfinite"}

\* What the outputs of a finished pass were computed from.
PassInputs(ps, stats) ==
    [params |-> ps.paramsRead, stats |-> IF ps.training THEN <<"batch">> ELSE stats,
     mask |-> ps.mask, n |-> ps.shape[1]]

\* The [loss, accuracy] pair of a finished evaluation, as a function of
\* what it was computed from.
MetricOf(a) == [n |-> a.n, finite |-> a.finite, reads |-> a.reads]

\* The printed value of a [loss, accuracy] pair: both are sample-weighted
\* means over the dataset, so the value depends on what each sample's
\* output was computed from, not on how the samples were cut into batches.
MetricValue(m) ==
    [n |-> m.n, finite |-> m.finite,
     from |-> {[params |-> r.params, stats |-> r.stats, mask |-> r.mask] : r \in m.reads}]

dataVars == <<err, raw, x_train, x_test, y_train, y_test>>

CellFit ==
    /\ cell = "fit" /\ pc = "idle"
    /\ epoch' = 0 /\ step' = 0 /\ seen' = 0
    /\ logs' = NoLogs
    /\ IF EpochsDone(0)
       THEN cell' = "evaluate" /\ pc' = "idle"
       ELSE cell' = cell /\ pc' = "step"
    /\ UNCHANGED <<dataVars, model, compiled, params, bn, pass, loss, grads, acc, results>>

\* The next training batch is drawn and handed to train_step.
TrainStep ==
    /\ cell = "fit" /\ pc = "step"
    /\ pass' = NewPass("train", BatchLen(NumTrain, batch_size, step))
    /\ pc' = "forward"
    /\ UNCHANGED <<dataVars, cell, model, compiled, params, bn, epoch, step, seen,
                   loss, grads, acc, logs, results>>

\* The tensor moves through the next layer of the stack.
Forward ==
    /\ pc = "forward"
    /\ pass.layer < Len(model)
    /\ LET n == pass.layer + 1
           l == model[n]
           isBN == l.type = "BatchNormalization"
       IN /\ \E m \in DropoutMasks(l, pass.training) :
                pass' = [pass EXCEPT
                           !.layer = n,
                           !.shape = <<pass.shape[1]>> \o OutShape(l, Tail(pass.shape)),
                           !.bnUsed = IF isBN
                                      THEN Append(@, [layer |-> n,
                                                      stats |-> BNStatsUsed(pass.training)])
                                      ELSE @,
                           !.mask = IF l.type = "Dropout" THEN m ELSE @]
          /\ bn' = IF isBN
                   THEN [bn EXCEPT ![n] = BNUpdate(@, pass.training, GlobalBatch,
                                                   pass.paramsRead.finite)]
                   ELSE bn
    /\ UNCHANGED <<dataVars, cell, model, compiled, params, epoch, step, seen, pc,
                   loss, grads, acc, logs, results>>

\* train_step: the loss of the batch.
TrainLoss ==
    /\ pc = "forward" /\ pass.layer = Len(model) /\ pass.kind = "train"
    /\ loss' \in LossValues(pass, bn)
    /\ pc' = "backward"
    /\ UNCHANGED <<dataVars, cell, model, compiled, params, bn, epoch, step, seen,
                   pass, grads, acc, logs, results>>

\* train_step: the gradients of the loss.
Backward ==
    /\ pc = "backward"
    /\ grads' = IF loss = "finite" THEN "finite" ELSE "nonfinite"
    /\ pc' = "update"
    /\ UNCHANGED <<dataVars, cell, model, compiled, params, bn, epoch, step, seen,
                   pass, loss, acc, logs, results>>

\* train_step: the optimizer update; then the batch loop goes on, or the
\* epoch's validation starts.
Update ==
    /\ pc = "update"
    /\ params' = ApplyGradients(params, grads)
    /\ grads' = "none"
    /\ step' = step + 1
    /\ seen' = seen + pass.shape[1]
    /\ pass' = NoPass
    /\ pc' = IF step + 1 >= StepsPerEpoch \/ StopTraining(loss) THEN "validate" ELSE "step"
    /\ UNCHANGED <<dataVars, cell, model, compiled, bn, epoch, loss, acc, logs, results>>

\* Validation at the end of the epoch: an evaluation over validation_data
\* with fit's batch_size.
Validate ==
    /\ cell = "fit" /\ pc = "validate"
    /\ acc' = NewAcc("val", batch_size)
    /\ pc' = "test_step"
    /\ UNCHANGED <<dataVars, cell, model, compiled, params, bn, epoch, step, seen,
                   pass, loss, grads, logs, results>>

\* The next evaluation batch is handed to test_step.
TestStep ==
    /\ pc = "test_step"
    /\ pass' = NewPass(acc.kind, BatchLen(NumTest, acc.batch, acc.steps))
    /\ pc' = "forward"
    /\ UNCHANGED <<dataVars, cell, model, compiled, params, bn, epoch, step, seen,
                   loss, grads, acc, logs, results>>

\* test_step: loss and accuracy of the batch go into the running means.
TestLoss ==
    /\ pc = "forward" /\ pass.layer = Len(model) /\ pass.kind # "train"
    /\ \E v \in LossValues(pass, bn) :
          /\ loss' = v
          /\ acc' = [acc EXCEPT !.steps = @ + 1,
                                !.n = @ + pass.shape[1],
                                !.finite = @ /\ v = "finite",
                                !.reads = @ \cup {PassInputs(pass, bn)}]
    /\ pass' = NoPass
    /\ pc' = IF acc.steps + 1 < StepsFor(NumTest, acc.batch) THEN "test_step"
             ELSE IF acc.kind = "val" THEN "epoch_end" ELSE "eval_return"
    /\ UNCHANGED <<dataVars, cell, model, compiled, params, bn, epoch, step, seen,
                   grads, logs, results>>

\* The epoch's logs are recorded; the epoch loop goes on or fit returns.
EpochEnd ==
    /\ pc = "epoch_end"
    /\ logs' = [epoch |-> epoch + 1, steps |-> step, seen |-> seen, val |-> MetricOf(acc)]
    /\ epoch' = epoch + 1
    /\ IF EpochsDone(epoch + 1) \/ StopTraining(loss)
       THEN cell' = "evaluate" /\ pc' = "idle" /\ UNCHANGED <<step, seen>>
       ELSE cell' = cell /\ pc' = "step" /\ step' = 0 /\ seen' = 0
    /\ UNCHANGED <<dataVars, model, compiled, params, bn, pass, loss, grads, acc, results>>

CellEvaluate ==
    /\ cell = "evaluate" /\ pc = "idle"
    /\ Len(results) < MaxEvals
    /\ acc' = NewAcc("eval", EvalBatchSize)
    /\ pc' = "test_step"
    /\ UNCHANGED <<dataVars, cell, model, compiled, params, bn, epoch, step, seen,
                   pass, loss, grads, logs, results>>

EvaluateReturn ==
    /\ pc = "eval_return"
    /\ results' = Append(results, MetricOf(acc))
    /\ pc' = "idle"
    /\ UNCHANGED <<dataVars, cell, model, compiled, params, bn, epoch, step, seen,
                   pass, loss, grads, acc, logs>>

\* Cell 14: print(model.metrics_names); the notebook ends.
CellMetricsNames ==
    /\ cell = "evaluate" /\ pc = "idle"
    /\ Len(results) >= 1
    /\ cell' = "done"
    /\ UNCHANGED <<dataVars, model, compiled, params, bn, epoch, step, seen, pc,
                   pass, loss, grads, acc, logs, results>>

(***************************************************************************)
(* The notebook from the model cell on, after a successful preparation of  *)
(* the MNIST arrays (the label contents play no part from here on).        *)
(***************************************************************************)
Init ==
    /\ cell = "build"
    /\ err = "none"
    /\ raw = [x_train |-> <<NumTrain, 28, 28>>, y_train |-> <<NumTrain>>,
              x_test |-> <<NumTest, 28, 28>>, y_test |-> <<NumTest>>]
    /\ x_train = [shape |-> <<NumTrain, 28, 28, 1>>, dtype |-> "float32", maxval |-> 1]
    /\ x_test = [shape |-> <<NumTest, 28, 28, 1>>, dtype |-> "float32", maxval |-> 1]
    /\ y_train = [kind |-> "onehot", shape |-> <<NumTrain, num_classes>>]
    /\ y_test = [kind |-> "onehot", shape |-> <<NumTest, num_classes>>]
    /\ NoModel

Next ==
    \/ AddLayer \/ CellCompile \/ CellFit
    \/ TrainStep \/ Forward \/ TrainLoss \/ Backward \/ Update
    \/ Validate \/ TestStep \/ TestLoss \/ EpochEnd
    \/ CellEvaluate \/ EvaluateReturn \/ CellMetricsNames

Spec == Init /\ [][Next]_vars

\* The notebook kernel runs a started cell to its end.
FairSpec == Spec /\ WF_vars(Next)

(***************************************************************************)
(* Properties of the data preparation cells (checked under SpecPrep).      *)
(***************************************************************************)
ValidLabel(l) == l \in 0..(num_classes - 1)

\* C2: for every label L in 0..9, the one-hot row has length 10, holds a
\* single 1 at index L and 0 elsewhere, argmax decodes it back to L, and
\* distinct labels get distinct rows.
C2_OneHotBijection ==
    y_train.kind = "onehot" =>
        /\ \A i \in 1..Len(raw.y_train) :
              LET L == raw.y_train[i]
                  row == y_train.data[i]
              IN ValidLabel(L) =>
                   /\ DOMAIN row = 0..9
                   /\ row[L] = 1
                   /\ \A j \in (0..9) \ {L} : row[j] = 0
                   /\ argmax(row) = L
        /\ \A i, j \in 1..Len(raw.y_train) :
              (ValidLabel(raw.y_train[i]) /\ ValidLabel(raw.y_train[j])) =>
                 ((raw.y_train[i] = raw.y_train[j]) <=> (y_train.data[i] = y_train.data[j]))

C2_Witness ==
    /\ y_train.kind = "onehot"
    /\ raw.y_train = <<3, 9>>
    /\ argmax(y_train.data[2]) = 9

PrepFinished == cell \in {"build", "error"}

IsRaw28x28(shape) == Len(shape) = 3 /\ shape[2] = 28 /\ shape[3] = 28
AllValid(ys) == \A i \in 1..Len(ys) : ValidLabel(ys[i])
NothingProduced ==
    /\ x_train = ImageArray(raw.x_train) /\ x_test = ImageArray(raw.x_test)
    /\ y_train = LabelArray(raw.y_train) /\ y_test = LabelArray(raw.y_test)

\* C3 as stated: whenever a raw label is outside 0..9 or a raw image array
\* is not of shape (N, 28, 28), the preparation ends in an error and has
\* produced no image or label array.
C3_Original ==
    (/\ PrepFinished
     /\ \/ ~AllValid(raw.y_train) \/ ~AllValid(raw.y_test)
        \/ ~IsRaw28x28(raw.x_train) \/ ~IsRaw28x28(raw.x_test))
    => (cell = "error" /\ NothingProduced)

ElementsOk(shape) == Prod(shape) = shape[1] * 784
Indexable(ys) == \A i \in 1..Len(ys) : (0 - 10) <= ys[i] /\ ys[i] <= 9

\* C3 as amended: the preparation ends in an error exactly when an image
\* array does not hold N*784 elements or a label is >= 10 or < -10; the
\* array whose conversion raised is not produced; otherwise every image
\* array (a (N, 14, 56) one included) ends as (N, 28, 28, 1) and every
\* label L, a negative one included, is encoded as class L mod 10.
C3_Amended ==
    PrepFinished =>
        /\ (cell = "error") <=>
              (\/ ~ElementsOk(raw.x_train) \/ ~ElementsOk(raw.x_test)
               \/ ~Indexable(raw.y_train) \/ ~Indexable(raw.y_test))
        /\ (err = "ValueError") <=> (~ElementsOk(raw.x_train) \/ ~ElementsOk(raw.x_test))
        /\ ~ElementsOk(raw.x_train) => NothingProduced
        /\ ~ElementsOk(raw.x_test) => x_test = ImageArray(raw.x_test)
        /\ ~Indexable(raw.y_train) => y_train = LabelArray(raw.y_train)
        /\ ~Indexable(raw.y_test) => y_test = LabelArray(raw.y_test)
        /\ cell = "build" =>
              /\ x_train.shape = <<raw.x_train[1], 28, 28, 1>>
              /\ x_test.shape = <<raw.x_test[1], 28, 28, 1>>
              /\ \A i \in 1..Len(raw.y_train) :
                    y_train.data[i][(raw.y_train[i] + 10) % 10] = 1
              /\ \A i \in 1..Len(raw.y_test) :
                    y_test.data[i][(raw.y_test[i] + 10) % 10] = 1

C3_Witness ==
    /\ cell = "build"
    /\ raw.x_train = <<2, 14, 56>>
    /\ raw.y_train = <<0 - 1, 4>>
    /\ y_train.data[1][9] = 1

(***************************************************************************)
(* Properties of the layer stack (checked under Spec).                     *)
(***************************************************************************)
LayerOrder ==
    << "Conv2D", "BatchNormalization", "Conv2D", "BatchNormalization", "MaxPooling2D",
       "Conv2D", "BatchNormalization", "MaxPooling2D", "Flatten", "Dense", "Dropout",
       "Dense" >>
SpatialSizes == <<26, 26, 24, 24, 12, 10, 10, 5>>

C10_DocumentedCounts ==
    Len(model) = 12 =>
        /\ model[9].type = "Flatten"
        /\ model[9].input = <<12, 12, 64>>
        /\ model[9].output = <<9216>>
        /\ model[10].trainable = 128 * 9216 + 128
        /\ TotalParams(model) = 1199882
        /\ NonTrainableParams(model) = 0

(***************************************************************************)
(* Properties of model.fit and model.evaluate.                             *)
(***************************************************************************)
FitReturned == cell \in {"evaluate", "done"}

\* C4: training terminates after exactly the configured 20 epochs: a
\* running fit always returns, it returns only once 20 epochs are complete
\* (whatever the losses were), and it never starts a 21st epoch.
C4_FixedEpochs ==
    /\ (cell = "fit") ~> FitReturned
    /\ [](epoch <= epochs)
    /\ [](FitReturned => (epoch = epochs /\ logs.epoch = epochs
                           /\ logs.steps = StepsPerEpoch))
    /\ [](cell = "fit" => epoch < epochs)

C4_Witness ==
    /\ cell = "evaluate"
    /\ epoch = 20
    /\ params.ver = 20 * 157
    /\ params.finite

\* C5 as stated: once the loss of a training batch is non-finite, no
\* parameter update is applied and no further batch or epoch is processed.
C5_Original ==
    [][(pass.kind = "train" /\ loss = "nonfinite" /\ pc \in {"backward", "update"})
         => (params' = params /\ step' = step /\ epoch' = epoch)]_vars

\* C5 as amended: a non-finite batch loss raises no error; the update of
\* that batch is still applied (the parameters become non-finite) and the
\* loop goes on through every remaining batch and epoch up to the
\* configured 20 epochs.
C5_Amended ==
    /\ [](cell # "error" /\ err = "none")
    /\ [][(pc = "update" /\ loss = "nonfinite")
            => (/\ params'.ver = params.ver + 1
                /\ ~params'.finite
                /\ step' = step + 1
                /\ cell' = "fit")]_vars
    /\ []((FitReturned /\ ~params.finite)
            => (epoch = epochs /\ logs.steps = StepsPerEpoch
                /\ params.ver = epochs * StepsPerEpoch))

C5_Witness ==
    /\ cell = "evaluate"
    /\ ~params.finite
    /\ epoch = 20
    /\ ~logs.val.finite

IsEvaluating == pc \in {"test_step", "eval_return"} \/ pass.kind \in {"val", "eval"}

\* C6: an evaluation changes no model parameter (weights, biases,
\* BatchNormalization scale/shift, moving mean/variance), and consecutive
\* evaluations of the model on the test set return identical results.
C6_EvaluatePure ==
    /\ [][IsEvaluating => (params' = params /\ bn' = bn)]_vars
    /\ [](\A i, j \in 1..Len(results) : results[i] = results[j])
    /\ [](\A i \in 1..Len(results) : results[i].n = NumTest)

C6_Witness ==
    /\ Len(results) = 2
    /\ results[1] = results[2]
    /\ results[1].n = 10000

IsBN(i) == i \in 1..Len(model) /\ model[i].type = "BatchNormalization"

\* C7 as stated: after construction, the parameters and the moving
\* mean/variance change only in the parameter-update step, never in a
\* forward pass.
C7_Original ==
    [][(cell # "build" /\ (params' # params \/ bn' # bn)) => pc = "update"]_vars

\* C7 as amended: the trainable parameters change only in the
\* parameter-update step; the moving mean/variance change only when a
\* training-mode forward pass goes through a BatchNormalization layer; an
\* inference-mode forward pass changes neither.
C7_Amended ==
    [][/\ params' # params => pc = "update"
       /\ (cell # "build" /\ bn' # bn) =>
             (/\ pc = "forward" /\ pass.kind = "train" /\ pass.training
              /\ IsBN(pass.layer + 1)
              /\ \A i \in DOMAIN bn : i # pass.layer + 1 => bn'[i] = bn[i])
       /\ (pc = "forward" /\ ~pass.training) => (params' = params /\ bn' = bn)]_vars

C7_Witness ==
    /\ pc = "forward"
    /\ pass.kind = "train"
    /\ pass.layer = 2
    /\ bn[2].ver = 1
    /\ params.ver = 0

\* C8: every training batch runs in training mode and every validation or
\* evaluation batch in inference mode; in training mode each
\* BatchNormalization layer uses the batch statistics and updates its
\* moving estimates and Dropout draws a mask; in inference mode each
\* BatchNormalization layer uses the moving estimates and leaves them
\* alone and Dropout is the identity.
C8_ModeDistinction ==
    /\ [](pass.kind # "none" =>
            /\ pass.training <=> (pass.kind = "train")
            /\ pass.kind \in {"train", "val"} => cell = "fit"
            /\ pass.kind = "eval" => cell = "evaluate"
            /\ \A k \in 1..Len(pass.bnUsed) :
                  pass.bnUsed[k].stats = IF pass.kind = "train" THEN "batch" ELSE "moving"
            /\ Len(pass.bnUsed) = Cardinality({i \in 1..pass.layer : IsBN(i)})
            /\ pass.layer >= 11 => ((pass.mask # 0) <=> (pass.kind = "train")))
    /\ [][(pc = "forward" /\ IsBN(pass.layer + 1)) =>
            IF pass.kind = "train"
            THEN bn'[pass.layer + 1].ver = bn[pass.layer + 1].ver + 1
            ELSE bn' = bn]_vars

C8_Witness ==
    /\ pass.kind = "val"
    /\ pass.layer = 12
    /\ pass.mask = 0
    /\ Len(pass.bnUsed) = 3
    /\ bn[7].ver = 157

\* C9: batches are processed one after another: while training batch g is
\* in progress the parameters it read are exactly those left by the
\* completed update of batch g-1, the update of batch g yields version g,
\* and every moving-statistics update belongs to the batch in progress
\* and follows the update of the batch before it.
C9_SequentialBatches ==
    /\ [](pass.kind = "train" =>
            (pass.paramsRead = params /\ params.ver = GlobalBatch - 1))
    /\ [][params' # params =>
            (params'.ver = params.ver + 1 /\ params'.ver = GlobalBatch)]_vars
    /\ [][\A i \in DOMAIN bn :
            bn'[i] # bn[i] =>
               (/\ bn[i].last = GlobalBatch - 1
                /\ bn'[i].last = GlobalBatch
                /\ bn'[i].ver = bn[i].ver + 1)]_vars

C9_Witness ==
    /\ pass.kind = "train"
    /\ epoch = 1 /\ step = 0
    /\ pass.layer = 4
    /\ bn[2].last = 158 /\ bn[4].last = 158 /\ bn[7].last = 157
    /\ pass.paramsRead.ver = 157

(***************************************************************************)
(* Properties of the batching of model.fit.                                *)
(***************************************************************************)
\* C11 as stated: every epoch is one complete pass over the 20000 training
\* samples in 157 batches, and every batch, the last one of the epoch
\* included, holds exactly batch_size (128) samples.
C11_Original ==
    /\ pass.kind = "train" => pass.shape[1] = batch_size
    /\ logs.epoch >= 1 => (logs.steps = 157 /\ logs.seen = NumTrain)

\* C11 as amended: every epoch is one complete pass over the 20000 training
\* samples in 157 batches: batch s (from 0) takes the samples at positions
\* s*128 .. s*128 + len - 1 of the epoch's order, so each sample is in
\* exactly one batch; the first 156 batches hold 128 samples and the last
\* one holds the remaining 32.
C11_Amended ==
    /\ seen <= NumTrain
    /\ pass.kind = "train" =>
          /\ step < 157
          /\ seen = step * batch_size
          /\ pass.shape[1] = IF step < 156 THEN 128 ELSE 32
          /\ seen + pass.shape[1] <= NumTrain
    /\ (cell = "fit" /\ pc = "step") => seen = step * batch_size
    /\ pc \in {"validate", "epoch_end"} => (step = 157 /\ seen = NumTrain)
    /\ logs.epoch >= 1 => (logs.steps = 157 /\ logs.seen = NumTrain)

C11_Witness ==
    /\ pass.kind = "train"
    /\ epoch = 1
    /\ step = 156
    /\ seen = 19968
    /\ pass.shape[1] = 32
    /\ logs.seen = 20000

\* No training batch has started since the latest epoch's logs were written.
AtEpochBoundary ==
    \/ FitReturned
    \/ (cell = "fit" /\ pc = "step" /\ step = 0 /\ logs.epoch = epoch /\ epoch >= 1)

\* C12: the validation data of fit is the test set and nothing changes the
\* parameters or the moving statistics between an epoch's validation and
\* the next training batch, or between the validation of the last epoch
\* and model.evaluate; so the logged validation metrics are those of the
\* parameters as the epoch left them, computed in inference mode over all
\* 10000 test samples, and every result of model.evaluate has the value of
\* the validation metrics logged for epoch 20.
C12_EvaluateEqualsLastValidation ==
    /\ AtEpochBoundary =>
          /\ logs.val.n = NumTest
          /\ MetricValue(logs.val).from = {[params |-> params, stats |-> bn, mask |-> 0]}
    /\ FitReturned => logs.epoch = epochs
    /\ \A i \in 1..Len(results) : MetricValue(results[i]) = MetricValue(logs.val)

C12_Witness ==
    /\ cell = "done"
    /\ Len(results) >= 1
    /\ logs.epoch = 20
    /\ results[1].n = 10000
    /\ results[1] # logs.val
    /\ MetricValue(results[1]) = MetricValue(logs.val)

=============================================================================
